---- MODULE Spec2Model ----
(***************************************************************************)
(* Suffix-array and inverse-suffix-array sampling strategies of sdsl-lite  *)
(* (include/sdsl/csa_sampling_strategy.hpp).                               *)
(*                                                                         *)
(* A compressed suffix array owns one SA sampling (sa_sample) and one ISA  *)
(* sampling (isa_sample).  Both are built once from the cached suffix      *)
(* array and afterwards only queried, or written to a stream and loaded    *)
(* into a fresh instance (SpecIO).  Vectors are indexed from 0 as in the   *)
(* source: a vector of length k is a function with domain 0..k-1.          *)
(* A query whose behaviour is undefined in the source (a read outside a    *)
(* vector, a select beyond the number of set bits) may return anything:    *)
(* every query operator yields the SET of values the call can return,      *)
(* a singleton wherever the behaviour is defined.                          *)
(***************************************************************************)
EXTENDS Integers, Sequences, FiniteSets, TLC

VARIABLES
    SA,               \* cache file KEY_SA: the suffix array, a permutation of 0..n-1
    sa_sample_dens,   \* t_csa::sa_sample_dens
    isa_sample_dens,  \* t_csa::isa_sample_dens
    bwt_buf,          \* cache file KEY_BWT as read by _bwt_sampling's constructor
    sample_char,      \* cache file KEY_SAMPLE_CHAR as read by _bwt_sampling's constructor
    sa_sample,        \* the SA sampling object
    isa_sample,       \* the ISA sampling object
    files,            \* the temporary files present in the cache directory
    out,              \* the stream written by serialize: whose it is, and its items
    loaded,           \* the fresh instance that load fills from the stream
    load_log,         \* what load did, step by step, and whether a read met a foreign item
    builder,          \* an sd_vector_builder
    sd_vec,           \* the sd_vector constructed from the builder
    sd_call           \* the last call made on the two, its arguments, and whether it threw

\* the serialization state
io == <<out, loaded, load_log>>

\* the sd_vector state
sd == <<builder, sd_vec, sd_call>>

vars == <<SA, sa_sample_dens, isa_sample_dens, bwt_buf, sample_char, sa_sample, isa_sample,
          files, out, loaded, load_log, builder, sd_vec, sd_call>>

----------------------------------------------------------------------------
(* Bounds of the model *)

\* longest suffix array
MaxN == 4
\* largest sampling density
MaxDens == 3

\* alphabet of the BWT
Sigma == {"A", "B"}

\* KEY_SAMPLE_CHAR is absent from the cache
NotCached == [cached |-> FALSE, chars |-> {}]

\* the possible contents of KEY_SAMPLE_CHAR
SampleCharFiles == {NotCached} \cup {[cached |-> TRUE, chars |-> c] : c \in SUBSET Sigma}

\* values an undefined read may produce
Garbage == 0 .. MaxN

----------------------------------------------------------------------------
(* Primitives the sampling classes are built on *)

n == Cardinality(DOMAIN SA)

EmptyVec == [i \in {} |-> 0]

Size(f) == Cardinality(DOMAIN f)

RECURSIVE Pow2(_)
Pow2(w) == IF w = 0 THEN 1 ELSE 2 * Pow2(w - 1)

\* bits::hi(x): position of the most significant set bit, 0 for x = 0
RECURSIVE hi(_)
hi(x) == IF x <= 1 THEN 0 ELSE 1 + hi(x \div 2)

\* int_vector<>(size, 0, width)
IntVector(size, width) == [width |-> width, v |-> [i \in 0 .. size - 1 |-> 0]]

\* int_vector::operator[](i) = x : stores the low `width` bits of x.
\* No constructor below stores outside its vector, so the ELSE branch is never taken.
IvSet(iv, i, x) ==
    IF i \in DOMAIN iv.v
    THEN [iv EXCEPT !.v = [iv.v EXCEPT ![i] = x % Pow2(iv.width)]]
    ELSE iv

\* int_vector::operator[](i) const
IvAt(iv, i) == IF i \in DOMAIN iv.v THEN {iv.v[i]} ELSE Garbage

\* bit_vector(n, 0)
BitVector(size) == [i \in 0 .. size - 1 |-> 0]

\* rank_1(i): number of set bits in [0, i)
rank(bv, i) == Cardinality({j \in DOMAIN bv : j < i /\ bv[j] = 1})

\* select_1(k): position of the k-th set bit, k >= 1
select(bv, k) ==
    LET hit == {p \in DOMAIN bv : bv[p] = 1 /\ rank(bv, p) = k - 1}
    IN  IF hit # {} THEN hit ELSE Garbage

popcount(bv) == rank(bv, Size(bv))

\* wt_int::select(k, c): position of the k-th occurrence of c, k >= 1
wt_select(wt, k, c) ==
    LET hit == {p \in DOMAIN wt : wt[p] = c
                   /\ Cardinality({q \in DOMAIN wt : q < p /\ wt[q] = c}) = k - 1}
    IN  IF hit # {} THEN hit ELSE Garbage

\* wt_int::operator[](i)
wt_at(wt, i) == IF i \in DOMAIN wt THEN {wt[i]} ELSE Garbage

\* a support's back-reference into a member of the SA sampling object
Ptr(field) == [obj |-> "sa_sample", field |-> field]

\* a support's back-reference into a member of the loaded instance
PtrLoaded(field) == [obj |-> "loaded", field |-> field]

\* the back-reference of a support that is bound to no vector
NullPtr == [obj |-> "null", field |-> "null"]

Deref(p) == IF p.obj = "loaded" THEN loaded[p.field] ELSE sa_sample[p.field]

\* operator== of two supports: the vectors they answer for are equal
support_eq(p, q) == Deref(p) = Deref(q)

\* inv_perm_support::operator[](i) over the permutation its m_v points to
inv_perm_at(ip, i) ==
    LET perm == Deref(ip.v).v
        hit  == {j \in DOMAIN perm : perm[j] = i}
    IN  IF i \in DOMAIN perm /\ hit # {} THEN hit ELSE Garbage

\* inv_perm_support::size()
inv_perm_size(ip) == Size(Deref(ip.v).v)

\* construct_isa: the inverse of the cached suffix array
ISA == [t \in DOMAIN SA |-> CHOOSE i \in DOMAIN SA : SA[i] = t]

----------------------------------------------------------------------------
(* The initial state: cached inputs, default-constructed samplings *)

PermsOf(k) ==
    {f \in [0 .. k - 1 -> 0 .. k - 1] : \A i, j \in 0 .. k - 1 : f[i] = f[j] => i = j}

Default == [kind |-> "none"]

NoStream == [of |-> "none", items |-> <<>>]

NoLog == [events |-> <<>>, misread |-> FALSE]

\* no sd_vector_builder, no sd_vector, no call yet
NoSd == builder = Default /\ sd_vec = Default /\ sd_call = [op |-> "none"]

\* nothing built, nothing serialized, for suffix arrays of length up to maxn
InitUpTo(maxn) ==
    /\ SA \in UNION {PermsOf(k) : k \in 0 .. maxn}
    /\ sa_sample_dens \in 1 .. MaxDens
    /\ isa_sample_dens \in 1 .. MaxDens
    /\ bwt_buf = EmptyVec
    /\ sample_char = NotCached
    /\ sa_sample = Default
    /\ isa_sample = Default
    /\ files = {}
    /\ out = NoStream
    /\ loaded = Default
    /\ load_log = NoLog
    /\ NoSd

Init == InitUpTo(MaxN)

----------------------------------------------------------------------------
(* _sa_order_sampling *)

sa_order_width == hi(n) + 1

\* sa_order_size rounding down
sa_order_size_floor == n \div sa_sample_dens

sa_order_size == (n + sa_sample_dens - 1) \div sa_sample_dens

\* the constructor's loop over the suffix array
RECURSIVE sa_order_scan(_, _, _, _)
sa_order_scan(i, cnt_mod, cnt_sum, iv) ==
    IF ~(i < n) THEN iv
    ELSE IF sa_sample_dens = cnt_mod
         THEN sa_order_scan(i + 1, 0 + 1, cnt_sum + 1, IvSet(iv, cnt_sum, SA[i]))
         ELSE sa_order_scan(i + 1, cnt_mod + 1, cnt_sum, iv)

sa_order_sampling ==
    [kind    |-> "_sa_order_sampling",
     samples |-> sa_order_scan(0, sa_sample_dens, 0, IntVector(sa_order_size, sa_order_width))]

sa_order_is_sampled(i) == 0 = (i % sa_sample_dens)

\* sa_order_at_in reading at i mod the density
sa_order_at_in_mod(x, i) == IvAt(x.samples, i % sa_sample_dens)

\* operator[] of the instance x
sa_order_at_in(x, i) == IvAt(x.samples, i \div sa_sample_dens)

sa_order_at(i) == sa_order_at_in(sa_sample, i)

----------------------------------------------------------------------------
(* _text_order_sampling *)

\* text_order_width one bit short
text_order_width_short == hi(n \div sa_sample_dens)

text_order_width == hi(n \div sa_sample_dens) + 1

text_order_size == (n + sa_sample_dens - 1) \div sa_sample_dens

\* the constructor's loop: st = [marked, samples]
RECURSIVE text_order_scan(_, _, _)
text_order_scan(i, sa_cnt, st) ==
    IF ~(i < n) THEN st
    ELSE IF 0 = (SA[i] % sa_sample_dens)
         THEN text_order_scan(i + 1, sa_cnt + 1,
                  [marked  |-> [st.marked EXCEPT ![i] = 1],
                   samples |-> IvSet(st.samples, sa_cnt, SA[i] \div sa_sample_dens)])
         ELSE text_order_scan(i + 1, sa_cnt, st)

text_order_sampling ==
    LET st == text_order_scan(0, 0,
                  [marked  |-> BitVector(n),
                   samples |-> IntVector(text_order_size, text_order_width)])
    IN  [kind          |-> "_text_order_sampling",
         samples       |-> st.samples,
         m_marked      |-> st.marked,
         m_rank_marked |-> Ptr("m_marked")]

\* is_sampled of the instance x
text_order_is_sampled_in(x, i) == x.m_marked[i] = 1

text_order_is_sampled(i) == text_order_is_sampled_in(sa_sample, i)

\* text_order_at_in counting the mark at i itself
text_order_at_in_inclusive(x, i) ==
    {s * sa_sample_dens : s \in IvAt(x.samples, rank(Deref(x.m_rank_marked), i + 1))}

\* operator[] of the instance x
text_order_at_in(x, i) ==
    {s * sa_sample_dens : s \in IvAt(x.samples, rank(Deref(x.m_rank_marked), i))}

\* text_order_at returning the condensed sample, not scaled back
text_order_at_unscaled(i) ==
    IvAt(sa_sample.samples, rank(Deref(sa_sample.m_rank_marked), i))

text_order_at(i) == text_order_at_in(sa_sample, i)

condensed_sa(i) == IvAt(sa_sample.samples, i)

----------------------------------------------------------------------------
(* _bwt_sampling *)

bwt_width == hi(n) + 1

\* char_map never filled from the sample-char file
char_map_unloaded(sc) == {}

\* std::set<char_type> char_map filled from the sample-char file, if cached
char_map(sc) == IF sc.cached THEN sc.chars ELSE {}

\* first pass: st = [marked, sa_cnt]
RECURSIVE bwt_mark(_, _, _, _)
bwt_mark(i, bwt, sc, st) ==
    IF ~(i < n) THEN st
    ELSE IF 0 = (SA[i] % sa_sample_dens)
         THEN bwt_mark(i + 1, bwt, sc,
                  [marked |-> [st.marked EXCEPT ![i] = 1], sa_cnt |-> st.sa_cnt + 1])
         ELSE IF bwt[i] \in char_map(sc)
              THEN bwt_mark(i + 1, bwt, sc,
                       [marked |-> [st.marked EXCEPT ![i] = 1], sa_cnt |-> st.sa_cnt + 1])
              ELSE bwt_mark(i + 1, bwt, sc, st)

\* second pass
RECURSIVE bwt_fill(_, _, _, _)
bwt_fill(i, sa_cnt, marked, iv) ==
    IF ~(i < n) THEN iv
    ELSE IF marked[i] = 1
         THEN bwt_fill(i + 1, sa_cnt + 1, marked, IvSet(iv, sa_cnt, SA[i]))
         ELSE bwt_fill(i + 1, sa_cnt, marked, iv)

bwt_sampling(bwt, sc) ==
    LET st == bwt_mark(0, bwt, sc, [marked |-> BitVector(n), sa_cnt |-> 0])
    IN  [kind          |-> "_bwt_sampling",
         samples       |-> bwt_fill(0, 0, st.marked, IntVector(st.sa_cnt, bwt_width)),
         m_marked      |-> st.marked,
         m_rank_marked |-> Ptr("m_marked")]

\* is_sampled of the instance x
bwt_is_sampled_in(x, i) == x.m_marked[i] = 1

bwt_is_sampled(i) == bwt_is_sampled_in(sa_sample, i)

\* operator[] of the instance x
bwt_at_in(x, i) ==
    {s * sa_sample_dens : s \in IvAt(x.samples, rank(Deref(x.m_rank_marked), i))}

bwt_at(i) == bwt_at_in(sa_sample, i)

----------------------------------------------------------------------------
(* _fuzzy_sa_sampling *)

fuzzy_size == (n + sa_sample_dens - 1) \div sa_sample_dens

\* fuzzy_block keeping the first candidate it meets
RECURSIVE fuzzy_block_first(_, _, _, _, _)
fuzzy_block_first(i, j, pos_min, pos_cnd, min_prev_val) ==
    IF ~(j < i + sa_sample_dens /\ j < n)
    THEN [pos_min |-> pos_min, pos_cnd |-> pos_cnd]
    ELSE LET pm == IF ISA[j] < ISA[pos_min] THEN j ELSE pos_min
             pc == IF ISA[j] >= min_prev_val /\ pos_cnd = n THEN j ELSE pos_cnd
         IN  fuzzy_block_first(i, j + 1, pm, pc, min_prev_val)

\* inner loop over one block: finds pos_min and pos_cnd
RECURSIVE fuzzy_block(_, _, _, _, _)
fuzzy_block(i, j, pos_min, pos_cnd, min_prev_val) ==
    IF ~(j < i + sa_sample_dens /\ j < n)
    THEN [pos_min |-> pos_min, pos_cnd |-> pos_cnd]
    ELSE LET pm == IF ISA[j] < ISA[pos_min] THEN j ELSE pos_min
             pc == IF ISA[j] >= min_prev_val
                   THEN IF pos_cnd = n THEN j
                        ELSE IF ISA[j] < ISA[pos_cnd] THEN j ELSE pos_cnd
                   ELSE pos_cnd
         IN  fuzzy_block(i, j + 1, pm, pc, min_prev_val)

\* outer loop over the blocks:
\* st = [marked_isa, marked_sa, inv_perm, cnt, runs, min_prev_val]
RECURSIVE fuzzy_scan(_, _)
fuzzy_scan(i, st) ==
    IF ~(i < n) THEN st
    ELSE LET b       == fuzzy_block(i, i + 1, i,
                            IF ISA[i] >= st.min_prev_val THEN i ELSE n, st.min_prev_val)
             broken  == b.pos_cnd = n
             pos_cnd == IF broken THEN b.pos_min ELSE b.pos_cnd
             val     == ISA[pos_cnd]
         IN  fuzzy_scan(i + sa_sample_dens,
                 [marked_isa   |-> [st.marked_isa EXCEPT ![pos_cnd] = 1],
                  marked_sa    |-> [st.marked_sa EXCEPT ![val] = 1],
                  inv_perm     |-> IvSet(st.inv_perm, st.cnt, val),
                  cnt          |-> st.cnt + 1,
                  runs         |-> IF broken THEN st.runs + 1 ELSE st.runs,
                  min_prev_val |-> val])

\* fuzzy_scanned with the run counter started at 0
fuzzy_scanned_runs0 ==
    fuzzy_scan(0, [marked_isa   |-> BitVector(n),
                   marked_sa    |-> BitVector(n),
                   inv_perm     |-> IntVector(fuzzy_size, hi(n) + 1),
                   cnt          |-> 0,
                   runs         |-> 0,
                   min_prev_val |-> 0])

fuzzy_scanned ==
    fuzzy_scan(0, [marked_isa   |-> BitVector(n),
                   marked_sa    |-> BitVector(n),
                   inv_perm     |-> IntVector(fuzzy_size, hi(n) + 1),
                   cnt          |-> 0,
                   runs         |-> 1,
                   min_prev_val |-> 0])

\* rank_compress left out: inv_perm keeps the raw ISA values
rank_compress_skipped(inv_perm, marked_sa) == inv_perm

\* inv_perm[i] = rank_marked_sa(inv_perm[i]) for every i
rank_compress(inv_perm, marked_sa) ==
    [inv_perm EXCEPT !.v = [i \in DOMAIN inv_perm.v |->
                               rank(marked_sa, inv_perm.v[i]) % Pow2(inv_perm.width)]]

\* util::bit_compress: the width becomes hi(max)+1, the values stay
bit_compress(iv) ==
    LET max == IF DOMAIN iv.v = {} THEN 0
               ELSE CHOOSE x \in {iv.v[i] : i \in DOMAIN iv.v} :
                        \A i \in DOMAIN iv.v : iv.v[i] <= x
    IN  [iv EXCEPT !.width = hi(max) + 1]

fuzzy_sa_sampling ==
    LET st == fuzzy_scanned
    IN  [kind                |-> "_fuzzy_sa_sampling",
         m_marked_sa         |-> st.marked_sa,
         m_rank_marked_sa    |-> Ptr("m_marked_sa"),
         m_marked_isa        |-> st.marked_isa,
         m_select_marked_isa |-> Ptr("m_marked_isa"),
         m_inv_perm          |-> bit_compress(rank_compress(st.inv_perm, st.marked_sa)).v]

\* is_sampled of the instance x
fuzzy_is_sampled_in(x, i) == x.m_marked_sa[i] = 1

fuzzy_is_sampled(i) == fuzzy_is_sampled_in(sa_sample, i)

\* operator[] of the instance x
fuzzy_at_in(x, i) ==
    UNION {select(Deref(x.m_select_marked_isa), b + 1) :
              b \in wt_select(x.m_inv_perm, 1, rank(Deref(x.m_rank_marked_sa), i))}

\* fuzzy_at selecting with the 0-based block number
fuzzy_at_select0(i) ==
    UNION {select(Deref(sa_sample.m_select_marked_isa), b) :
              b \in wt_select(sa_sample.m_inv_perm, 1,
                              rank(Deref(sa_sample.m_rank_marked_sa), i))}

fuzzy_at(i) == fuzzy_at_in(sa_sample, i)

\* _fuzzy_sa_sampling::inv
inv(i) == wt_at(sa_sample.m_inv_perm, i)

\* _fuzzy_sa_sampling::size
fuzzy_sa_size == Size(sa_sample.m_inv_perm)

----------------------------------------------------------------------------
(* The SA sampling interface, resolved by the sampling's type *)

is_sampled(i) ==
    CASE sa_sample.kind = "_sa_order_sampling"   -> sa_order_is_sampled(i)
      [] sa_sample.kind = "_text_order_sampling" -> text_order_is_sampled(i)
      [] sa_sample.kind = "_bwt_sampling"        -> bwt_is_sampled(i)
      [] sa_sample.kind = "_fuzzy_sa_sampling"   -> fuzzy_is_sampled(i)

sa_at(i) ==
    CASE sa_sample.kind = "_sa_order_sampling"   -> sa_order_at(i)
      [] sa_sample.kind = "_text_order_sampling" -> text_order_at(i)
      [] sa_sample.kind = "_bwt_sampling"        -> bwt_at(i)
      [] sa_sample.kind = "_fuzzy_sa_sampling"   -> fuzzy_at(i)

\* the same two queries asked of the instance x
is_sampled_in(x, i) ==
    CASE x.kind = "_sa_order_sampling"   -> sa_order_is_sampled(i)
      [] x.kind = "_text_order_sampling" -> text_order_is_sampled_in(x, i)
      [] x.kind = "_bwt_sampling"        -> bwt_is_sampled_in(x, i)
      [] x.kind = "_fuzzy_sa_sampling"   -> fuzzy_is_sampled_in(x, i)

sa_at_in(x, i) ==
    CASE x.kind = "_sa_order_sampling"   -> sa_order_at_in(x, i)
      [] x.kind = "_text_order_sampling" -> text_order_at_in(x, i)
      [] x.kind = "_bwt_sampling"        -> bwt_at_in(x, i)
      [] x.kind = "_fuzzy_sa_sampling"   -> fuzzy_at_in(x, i)

text_order ==
    CASE sa_sample.kind = "_sa_order_sampling"   -> FALSE
      [] sa_sample.kind = "_text_order_sampling" -> TRUE
      [] sa_sample.kind = "_bwt_sampling"        -> FALSE
      [] sa_sample.kind = "_fuzzy_sa_sampling"   -> TRUE
      [] OTHER                                   -> FALSE

----------------------------------------------------------------------------
(* _isa_sampling *)

isa_width == hi(n) + 1

\* isa_size without the last sample
isa_size_short == (n - 1) \div isa_sample_dens

isa_size == (n - 1) \div isa_sample_dens + 1

\* the constructor's loop over the suffix array
RECURSIVE isa_scan(_, _)
isa_scan(i, iv) ==
    IF ~(i < n) THEN iv
    ELSE IF (SA[i] % isa_sample_dens) = 0
         THEN isa_scan(i + 1, IvSet(iv, SA[i] \div isa_sample_dens, i))
         ELSE isa_scan(i + 1, iv)

isa_sampling ==
    [kind    |-> "_isa_sampling",
     samples |-> isa_scan(0, IF n >= 1 THEN IntVector(isa_size, isa_width)
                                       ELSE [width |-> 64, v |-> EmptyVec])]

isa_sampling_at(i) == IvAt(isa_sample.samples, i \div isa_sample_dens)

\* isa_sampling_sample_leq returning the block number as the position
isa_sampling_sample_leq_block(i) ==
    LET ci == i \div isa_sample_dens
    IN  {<<v, ci>> : v \in IvAt(isa_sample.samples, ci)}

isa_sampling_sample_leq(i) ==
    LET ci == i \div isa_sample_dens
    IN  {<<v, ci * isa_sample_dens>> : v \in IvAt(isa_sample.samples, ci)}

isa_sampling_sample_qeq(i) ==
    LET ci == (i \div isa_sample_dens + 1) % Size(isa_sample.samples.v)
    IN  {<<v, ci * isa_sample_dens>> : v \in IvAt(isa_sample.samples, ci)}

----------------------------------------------------------------------------
(* _text_order_isa_sampling_support *)

text_order_isa_sampling_support ==
    [kind            |-> "_text_order_isa_sampling_support",
     m_select_marked |-> Ptr("m_marked"),
     m_inv_perm      |-> [v |-> Ptr("samples")]]

\* text_order_isa_lookup selecting with the 0-based rank
text_order_isa_lookup_rank(ci) ==
    UNION {select(Deref(isa_sample.m_select_marked), r) :
              r \in inv_perm_at(isa_sample.m_inv_perm, ci)}

\* m_select_marked(m_inv_perm[ci] + 1)
text_order_isa_lookup(ci) ==
    UNION {select(Deref(isa_sample.m_select_marked), r + 1) :
              r \in inv_perm_at(isa_sample.m_inv_perm, ci)}

text_order_isa_at(i) == text_order_isa_lookup(i \div isa_sample_dens)

text_order_isa_sample_leq(i) ==
    LET ci == i \div isa_sample_dens
    IN  {<<v, ci * isa_sample_dens>> : v \in text_order_isa_lookup(ci)}

\* text_order_isa_sample_qeq without the wrap-around
text_order_isa_sample_qeq_nowrap(i) ==
    LET ci == i \div isa_sample_dens + 1
    IN  {<<v, ci * isa_sample_dens>> : v \in text_order_isa_lookup(ci)}

text_order_isa_sample_qeq(i) ==
    LET ci == (i \div isa_sample_dens + 1) % inv_perm_size(isa_sample.m_inv_perm)
    IN  {<<v, ci * isa_sample_dens>> : v \in text_order_isa_lookup(ci)}

----------------------------------------------------------------------------
(* _fuzzy_isa_sampling_support *)

fuzzy_isa_sampling_support ==
    [kind               |-> "_fuzzy_isa_sampling_support",
     m_sa_p             |-> "sa_sample",
     m_select_marked_sa |-> Ptr("m_marked_sa")]

fuzzy_isa_at(i) == inv(i)

\* m_select_marked_sa(m_sa_p->inv(ci) + 1)
fuzzy_isa_lookup(ci) ==
    UNION {select(Deref(isa_sample.m_select_marked_sa), r + 1) : r \in inv(ci)}

\* fuzzy_isa_sample_leq stepping back also when the block's sample is at i
fuzzy_isa_sample_leq_strict(i) ==
    LET ci0 == i \div isa_sample_dens
    IN  UNION {IF j0 >= i
               THEN LET ci == IF ci0 > 0 THEN ci0 - 1 ELSE fuzzy_sa_size - 1
                    IN  UNION {{<<v, j>> : v \in fuzzy_isa_lookup(ci)} :
                                  j \in select(Deref(sa_sample.m_select_marked_isa), ci + 1)}
               ELSE {<<v, j0>> : v \in fuzzy_isa_lookup(ci0)} :
                  j0 \in select(Deref(sa_sample.m_select_marked_isa), ci0 + 1)}

fuzzy_isa_sample_leq(i) ==
    LET ci0 == i \div isa_sample_dens
    IN  UNION {IF j0 > i
               THEN LET ci == IF ci0 > 0 THEN ci0 - 1 ELSE fuzzy_sa_size - 1
                    IN  UNION {{<<v, j>> : v \in fuzzy_isa_lookup(ci)} :
                                  j \in select(Deref(sa_sample.m_select_marked_isa), ci + 1)}
               ELSE {<<v, j0>> : v \in fuzzy_isa_lookup(ci0)} :
                  j0 \in select(Deref(sa_sample.m_select_marked_isa), ci0 + 1)}

fuzzy_isa_sample_qeq(i) ==
    LET ci0 == i \div isa_sample_dens
    IN  UNION {IF j0 < i
               THEN LET ci == IF ci0 < fuzzy_sa_size - 1 THEN ci0 + 1 ELSE 0
                    IN  UNION {{<<v, j>> : v \in fuzzy_isa_lookup(ci)} :
                                  j \in select(Deref(sa_sample.m_select_marked_isa), ci + 1)}
               ELSE {<<v, j0>> : v \in fuzzy_isa_lookup(ci0)} :
                  j0 \in select(Deref(sa_sample.m_select_marked_isa), ci0 + 1)}

----------------------------------------------------------------------------
(* The ISA sampling interface, resolved by the sampling's type *)

isa_at(i) ==
    CASE isa_sample.kind = "_isa_sampling"                    -> isa_sampling_at(i)
      [] isa_sample.kind = "_text_order_isa_sampling_support" -> text_order_isa_at(i)
      [] isa_sample.kind = "_fuzzy_isa_sampling_support"      -> fuzzy_isa_at(i)

sample_leq(i) ==
    CASE isa_sample.kind = "_isa_sampling"                    -> isa_sampling_sample_leq(i)
      [] isa_sample.kind = "_text_order_isa_sampling_support" -> text_order_isa_sample_leq(i)
      [] isa_sample.kind = "_fuzzy_isa_sampling_support"      -> fuzzy_isa_sample_leq(i)

sample_qeq(i) ==
    CASE isa_sample.kind = "_isa_sampling"                    -> isa_sampling_sample_qeq(i)
      [] isa_sample.kind = "_text_order_isa_sampling_support" -> text_order_isa_sample_qeq(i)
      [] isa_sample.kind = "_fuzzy_isa_sampling_support"      -> fuzzy_isa_sample_qeq(i)

----------------------------------------------------------------------------
(* Serialization *)

\* the type of the member f of a sampling of the given kind
member_type(kind, f) ==
    CASE f = "samples"                                            -> "int_vector"
      [] f \in {"m_marked", "m_marked_sa", "m_marked_isa"}        -> "bit_vector"
      [] f \in {"m_rank_marked", "m_rank_marked_sa"}              -> "rank_support"
      [] f \in {"m_select_marked_isa", "m_select_marked", "m_select_marked_sa"}
                                                                  -> "select_support"
      [] f = "m_inv_perm" /\ kind = "_fuzzy_sa_sampling"          -> "wt_int"
      [] f = "m_inv_perm"                                         -> "inv_perm_support"

\* what a member's serialize puts on the stream; the address a support
\* refers to is not part of it
stored(x, f) ==
    LET t == member_type(x.kind, f)
    IN  [type  |-> t,
         value |-> CASE t \in {"rank_support", "select_support"} -> NullPtr
                     [] t = "inv_perm_support"                   -> [v |-> NullPtr]
                     [] OTHER                                    -> x[f]]

\* the members in the order serialize writes them
serialize_order(kind) ==
    CASE kind = "_sa_order_sampling"   -> <<"samples">>
      [] kind = "_text_order_sampling" -> <<"samples", "m_marked", "m_rank_marked">>
      [] kind = "_bwt_sampling"        -> <<"samples", "m_marked", "m_rank_marked">>
      [] kind = "_fuzzy_sa_sampling"   -> <<"m_marked_sa", "m_rank_marked_sa", "m_marked_isa",
                                            "m_select_marked_isa", "m_inv_perm">>
      [] kind = "_isa_sampling"        -> <<"samples">>
      [] kind = "_text_order_isa_sampling_support" -> <<"m_inv_perm", "m_select_marked">>
      [] kind = "_fuzzy_isa_sampling_support"      -> <<"m_select_marked_sa">>

serialize(x) ==
    [k \in 1 .. Len(serialize_order(x.kind)) |-> stored(x, serialize_order(x.kind)[k])]

\* a default-constructed sampling of the given kind
default_instance(kind) ==
    CASE kind = "_sa_order_sampling" ->
            [kind |-> kind, samples |-> IntVector(0, 64)]
      [] kind = "_text_order_sampling" ->
            [kind |-> kind, samples |-> IntVector(0, 64), m_marked |-> EmptyVec,
             m_rank_marked |-> NullPtr]
      [] kind = "_bwt_sampling" ->
            [kind |-> kind, samples |-> IntVector(0, 64), m_marked |-> EmptyVec,
             m_rank_marked |-> NullPtr]
      [] kind = "_fuzzy_sa_sampling" ->
            [kind |-> kind, m_marked_sa |-> EmptyVec, m_rank_marked_sa |-> NullPtr,
             m_marked_isa |-> EmptyVec, m_select_marked_isa |-> NullPtr,
             m_inv_perm |-> EmptyVec]
      [] kind = "_isa_sampling" ->
            [kind |-> kind, samples |-> IntVector(0, 64)]
      [] kind = "_text_order_isa_sampling_support" ->
            [kind |-> kind, m_select_marked |-> NullPtr, m_inv_perm |-> [v |-> NullPtr]]
      [] kind = "_fuzzy_isa_sampling_support" ->
            [kind |-> kind, m_sa_p |-> "null", m_select_marked_sa |-> NullPtr]

\* the two kinds of step of a load: m.load(in), and binding a back-reference
Read(f) == [op |-> "read", field |-> f, target |-> NullPtr]

Rebind(f, target) == [op |-> "rebind", field |-> f, target |-> target]

\* _text_order_isa_sampling_support::set_vector(sa_sample)
text_order_isa_set_vector(sa_p) ==
    IF sa_p = "null"
    THEN <<Rebind("m_select_marked", NullPtr), Rebind("m_inv_perm", [v |-> NullPtr])>>
    ELSE <<Rebind("m_select_marked", Ptr("m_marked")),
           Rebind("m_inv_perm", [v |-> Ptr("samples")])>>

\* _fuzzy_isa_sampling_support::set_vector(sa_sample)
fuzzy_isa_set_vector(sa_p) ==
    IF sa_p = "null"
    THEN <<Rebind("m_sa_p", sa_p)>>
    ELSE <<Rebind("m_sa_p", sa_p), Rebind("m_select_marked_sa", Ptr("m_marked_sa"))>>

\* _fuzzy_sa_sampling::load without its last line
fuzzy_load_steps_short ==
    <<Read("m_marked_sa"),
      Read("m_rank_marked_sa"),
      Rebind("m_rank_marked_sa", PtrLoaded("m_marked_sa")),
      Read("m_marked_isa"),
      Read("m_select_marked_isa"),
      Rebind("m_select_marked_isa", PtrLoaded("m_marked_isa"))>>

\* _fuzzy_sa_sampling::load
fuzzy_load_steps ==
    <<Read("m_marked_sa"),
      Read("m_rank_marked_sa"),
      Rebind("m_rank_marked_sa", PtrLoaded("m_marked_sa")),
      Read("m_marked_isa"),
      Read("m_select_marked_isa"),
      Rebind("m_select_marked_isa", PtrLoaded("m_marked_isa")),
      Read("m_inv_perm")>>

\* marked_load_steps binding the rank support before loading it
marked_load_steps_bind_first ==
    <<Read("samples"),
      Read("m_marked"),
      Rebind("m_rank_marked", PtrLoaded("m_marked")),
      Read("m_rank_marked")>>

\* _text_order_sampling::load and _bwt_sampling::load
marked_load_steps ==
    <<Read("samples"),
      Read("m_marked"),
      Read("m_rank_marked"),
      Rebind("m_rank_marked", PtrLoaded("m_marked"))>>

\* the statements of load, in order; sa_p is the companion handed to the
\* load of an ISA sampling
load_steps(kind, sa_p) ==
    CASE kind = "_sa_order_sampling"   -> <<Read("samples")>>
      [] kind = "_text_order_sampling" -> marked_load_steps
      [] kind = "_bwt_sampling"        -> marked_load_steps
      [] kind = "_fuzzy_sa_sampling"   -> fuzzy_load_steps
      [] kind = "_isa_sampling"        -> <<Read("samples")>>
      [] kind = "_text_order_isa_sampling_support" ->
            <<Read("m_inv_perm"), Read("m_select_marked")>> \o text_order_isa_set_vector(sa_p)
      [] kind = "_fuzzy_isa_sampling_support" ->
            <<Read("m_select_marked_sa")>> \o fuzzy_isa_set_vector(sa_p)

\* runs the steps from the k-th on.  st.obj is the instance being filled,
\* st.rest the unread part of the stream.  A read consumes the next item; an
\* item of another type than the member's leaves the member as it was and
\* records the misread.
RECURSIVE run_load(_, _, _)
run_load(steps, k, st) ==
    IF k > Len(steps) THEN st
    ELSE LET s == steps[k]
             event == [op |-> s.op, field |-> s.field]
         IN  IF s.op = "read"
             THEN LET has == st.rest # <<>>
                      ok  == has /\ Head(st.rest).type = member_type(st.obj.kind, s.field)
                  IN  run_load(steps, k + 1,
                          [obj     |-> IF ok THEN [st.obj EXCEPT ![s.field] = Head(st.rest).value]
                                             ELSE st.obj,
                           rest    |-> IF has THEN Tail(st.rest) ELSE <<>>,
                           events  |-> Append(st.events, event),
                           misread |-> st.misread \/ ~ok])
             ELSE run_load(steps, k + 1,
                          [st EXCEPT !.obj    = [st.obj EXCEPT ![s.field] = s.target],
                                     !.events = Append(st.events, event)])

\* load into a fresh instance of the given kind
load(kind, items, sa_p) ==
    run_load(load_steps(kind, sa_p), 1,
             [obj |-> default_instance(kind), rest |-> items, events |-> <<>>,
              misread |-> FALSE])

\* operator== : the int_vector's for the samplings that are int_vectors,
\* member by member for the others
value_eq(x, y) ==
    /\ x.kind = y.kind
    /\ CASE x.kind = "_fuzzy_sa_sampling" ->
              /\ x.m_marked_sa = y.m_marked_sa
              /\ support_eq(x.m_rank_marked_sa, y.m_rank_marked_sa)
              /\ x.m_marked_isa = y.m_marked_isa
              /\ support_eq(x.m_select_marked_isa, y.m_select_marked_isa)
              /\ x.m_inv_perm = y.m_inv_perm
         [] x.kind = "_text_order_isa_sampling_support" ->
              /\ support_eq(x.m_inv_perm.v, y.m_inv_perm.v)
              /\ support_eq(x.m_select_marked, y.m_select_marked)
         [] x.kind = "_fuzzy_isa_sampling_support" ->
              support_eq(x.m_select_marked_sa, y.m_select_marked_sa)
         [] OTHER -> x.samples = y.samples

----------------------------------------------------------------------------
(* Construction *)

BuildSaOrder ==
    /\ sa_sample.kind = "none"
    /\ sa_sample' = sa_order_sampling
    /\ UNCHANGED <<SA, sa_sample_dens, isa_sample_dens, bwt_buf, sample_char, isa_sample, files, io, sd>>

BuildTextOrder ==
    /\ sa_sample.kind = "none"
    /\ sa_sample' = text_order_sampling
    /\ UNCHANGED <<SA, sa_sample_dens, isa_sample_dens, bwt_buf, sample_char, isa_sample, files, io, sd>>

BuildBwt ==
    /\ sa_sample.kind = "none"
    /\ \E bwt \in [DOMAIN SA -> Sigma], sc \in SampleCharFiles :
          /\ bwt_buf' = bwt
          /\ sample_char' = sc
          /\ sa_sample' = bwt_sampling(bwt, sc)
    /\ UNCHANGED <<SA, sa_sample_dens, isa_sample_dens, isa_sample, files, io, sd>>

\* cache_file_name("fuzzy_isa_samples_<pid>_<id>", cconfig)
tmp_file_name == "fuzzy_isa_samples"

\* cache_file_name(conf::KEY_ISA, cconfig)
isa_file_name == "isa"

\* the cache directory once the inverse suffix array is there: construct_isa
\* writes it when it was not cached
with_isa(isa_cached) == IF isa_cached THEN files ELSE files \cup {isa_file_name}

\* store_to_file(inv_perm, tmp_file_name)
store_to_file(dir, name) == dir \cup {name}

\* sdsl::remove(tmp_file_name)
remove(dir, name) == dir \ {name}

BuildFuzzy ==
    /\ sa_sample.kind = "none"
    /\ sa_sample' = fuzzy_sa_sampling
    /\ \E isa_cached \in BOOLEAN :
          files' = remove(store_to_file(with_isa(isa_cached), tmp_file_name), tmp_file_name)
    /\ UNCHANGED <<SA, sa_sample_dens, isa_sample_dens, bwt_buf, sample_char, isa_sample, io, sd>>

\* the constructor when construct(m_inv_perm, tmp_file_name, 0) throws: the
\* exception leaves the constructor, no sampling comes to exist
BuildFuzzyThrows ==
    /\ sa_sample.kind = "none"
    /\ sa_sample' = [kind |-> "threw"]
    /\ \E isa_cached \in BOOLEAN :
          files' = store_to_file(with_isa(isa_cached), tmp_file_name)
    /\ UNCHANGED <<SA, sa_sample_dens, isa_sample_dens, bwt_buf, sample_char, isa_sample, io, sd>>

BuildIsa ==
    /\ isa_sample.kind = "none"
    /\ isa_sample' = isa_sampling
    /\ UNCHANGED <<SA, sa_sample_dens, isa_sample_dens, bwt_buf, sample_char, sa_sample, files, io, sd>>

\* text_order_isa_requires without the static_assert
text_order_isa_requires_text_order == text_order

\* what the class and its constructor demand of the companion:
\* static_assert(sa_sample_dens == isa_sample_dens) and enable_if<sa_type::text_order>
text_order_isa_requires == text_order /\ sa_sample_dens = isa_sample_dens

\* static_assert(sa_sample_dens == isa_sample_dens)
fuzzy_isa_requires == sa_sample_dens = isa_sample_dens

\* also needs sa_type::bv_type and sa_sample->marked
BuildTextOrderIsa ==
    /\ isa_sample.kind = "none"
    /\ sa_sample.kind = "_text_order_sampling"
    /\ text_order_isa_requires
    /\ isa_sample' = text_order_isa_sampling_support
    /\ UNCHANGED <<SA, sa_sample_dens, isa_sample_dens, bwt_buf, sample_char, sa_sample, files, io, sd>>

\* also needs sa_sample->marked_sa
BuildFuzzyIsa ==
    /\ isa_sample.kind = "none"
    /\ sa_sample.kind = "_fuzzy_sa_sampling"
    /\ fuzzy_isa_requires
    /\ isa_sample' = fuzzy_isa_sampling_support
    /\ UNCHANGED <<SA, sa_sample_dens, isa_sample_dens, bwt_buf, sample_char, sa_sample, files, io, sd>>

Next ==
    \/ BuildSaOrder
    \/ BuildTextOrder
    \/ BuildBwt
    \/ BuildFuzzy
    \/ BuildFuzzyThrows
    \/ BuildIsa
    \/ BuildTextOrderIsa
    \/ BuildFuzzyIsa

Spec == Init /\ [][Next]_vars

----------------------------------------------------------------------------
(* Serialization and loading of built samplings *)

SaKinds ==
    {"_sa_order_sampling", "_text_order_sampling", "_bwt_sampling", "_fuzzy_sa_sampling"}

IsaKinds ==
    {"_isa_sampling", "_text_order_isa_sampling_support", "_fuzzy_isa_sampling_support"}

\* sa_sample.serialize(out)
SerializeSa ==
    /\ sa_sample.kind \in SaKinds
    /\ out.of = "none"
    /\ out' = [of |-> "sa_sample", items |-> serialize(sa_sample)]
    /\ UNCHANGED <<SA, sa_sample_dens, isa_sample_dens, bwt_buf, sample_char, sa_sample,
                   isa_sample, files, loaded, load_log, sd>>

\* a fresh SA sampling's load(in)
LoadSa ==
    /\ out.of = "sa_sample"
    /\ loaded.kind = "none"
    /\ LET st == load(sa_sample.kind, out.items, "null")
       IN  /\ loaded' = st.obj
           /\ load_log' = [events |-> st.events, misread |-> st.misread]
    /\ UNCHANGED <<SA, sa_sample_dens, isa_sample_dens, bwt_buf, sample_char, sa_sample,
                   isa_sample, files, out, sd>>

\* isa_sample.serialize(out)
SerializeIsa ==
    /\ isa_sample.kind \in IsaKinds
    /\ out.of = "none"
    /\ out' = [of |-> "isa_sample", items |-> serialize(isa_sample)]
    /\ UNCHANGED <<SA, sa_sample_dens, isa_sample_dens, bwt_buf, sample_char, sa_sample,
                   isa_sample, files, loaded, load_log, sd>>

\* a fresh ISA sampling's load(in, sa_sample); the companion is optional
LoadIsa ==
    /\ out.of = "isa_sample"
    /\ loaded.kind = "none"
    /\ \E sa_p \in {"null", "sa_sample"} :
          LET st == load(isa_sample.kind, out.items, sa_p)
          IN  /\ loaded' = st.obj
              /\ load_log' = [events |-> st.events, misread |-> st.misread]
    /\ UNCHANGED <<SA, sa_sample_dens, isa_sample_dens, bwt_buf, sample_char, sa_sample,
                   isa_sample, files, out, sd>>

\* longest suffix array of the serialization runs
MaxNIO == 3

InitIO == InitUpTo(MaxNIO)

NextIO ==
    \/ BuildSaOrder
    \/ BuildTextOrder
    \/ BuildBwt
    \/ BuildFuzzy
    \/ BuildFuzzyThrows
    \/ BuildIsa
    \/ BuildTextOrderIsa
    \/ BuildFuzzyIsa
    \/ SerializeSa
    \/ LoadSa
    \/ SerializeIsa
    \/ LoadIsa

SpecIO == InitIO /\ [][NextIO]_vars

----------------------------------------------------------------------------
(* Copying, moving and swapping SA samplings that have supports *)

\* the address of the member `field` of the instance named self
PtrOf(self, field) == [obj |-> self, field |-> field]

\* a bit vector or wavelet tree that has been moved from
moved_from(v) == EmptyVec

\* marked_copy without the call of set_vector
marked_copy_unbound(st, self) ==
    [kind          |-> st.kind,
     samples       |-> st.samples,
     m_marked      |-> st.m_marked,
     m_rank_marked |-> st.m_rank_marked]

\* copy constructor of _text_order_sampling and of _bwt_sampling:
\* base_type(st); m_marked = st.m_marked; m_rank_marked = st.m_rank_marked;
\* m_rank_marked.set_vector(&m_marked)
marked_copy(st, self) ==
    [[kind          |-> st.kind,
      samples       |-> st.samples,
      m_marked      |-> st.m_marked,
      m_rank_marked |-> st.m_rank_marked]
        EXCEPT !.m_rank_marked = PtrOf(self, "m_marked")]

\* swap of _text_order_sampling and of _bwt_sampling, a and b living at na
\* and nb; util::swap_support swaps the supports and binds each to the
\* vector handed in for it
marked_swap(a, b, na, nb) ==
    [a |-> [kind          |-> a.kind,
            samples       |-> b.samples,
            m_marked      |-> b.m_marked,
            m_rank_marked |-> PtrOf(na, "m_marked")],
     b |-> [kind          |-> b.kind,
            samples       |-> a.samples,
            m_marked      |-> a.m_marked,
            m_rank_marked |-> PtrOf(nb, "m_marked")]]

\* copy constructor of _fuzzy_sa_sampling
fuzzy_copy(st, self) ==
    [[kind                |-> st.kind,
      m_marked_sa         |-> st.m_marked_sa,
      m_rank_marked_sa    |-> st.m_rank_marked_sa,
      m_marked_isa        |-> st.m_marked_isa,
      m_select_marked_isa |-> st.m_select_marked_isa,
      m_inv_perm          |-> st.m_inv_perm]
        EXCEPT !.m_rank_marked_sa    = PtrOf(self, "m_marked_sa"),
               !.m_select_marked_isa = PtrOf(self, "m_marked_isa")]

\* move constructor and move assignment of _fuzzy_sa_sampling: the members
\* are moved, then both supports are bound.  to is the receiving instance,
\* from what is left of st, whose supports keep the address they held
fuzzy_move(st, self) ==
    [to   |-> fuzzy_copy(st, self),
     from |-> [st EXCEPT !.m_marked_sa  = moved_from(@),
                         !.m_marked_isa = moved_from(@),
                         !.m_inv_perm   = moved_from(@)]]

\* copy assignment of _fuzzy_sa_sampling: _fuzzy_sa_sampling tmp(st); *this = std::move(tmp)
fuzzy_copy_assign(st, self) == fuzzy_move(fuzzy_copy(st, "tmp"), self).to

\* std::swap on _fuzzy_sa_sampling, which has no swap of its own:
\* T tmp(std::move(a)); a = std::move(b); b = std::move(tmp)
fuzzy_swap(a, b, na, nb) ==
    LET tmp == fuzzy_move(a, "tmp")
        ab  == fuzzy_move(b, na)
    IN  [a |-> ab.to, b |-> fuzzy_move(tmp.to, nb).to]

\* the samplings with a rank or select support of their own
LifeKinds == {"_text_order_sampling", "_bwt_sampling", "_fuzzy_sa_sampling"}

copy_construct(st, self) ==
    IF st.kind = "_fuzzy_sa_sampling" THEN fuzzy_copy(st, self) ELSE marked_copy(st, self)

\* _text_order_sampling and _bwt_sampling declare a copy constructor and a
\* copy assignment and no move operation: constructing or assigning from an
\* rvalue copies
move_construct(st, self) ==
    IF st.kind = "_fuzzy_sa_sampling" THEN fuzzy_move(st, self)
    ELSE [to |-> marked_copy(st, self), from |-> st]

copy_assign(st, self) ==
    IF st.kind = "_fuzzy_sa_sampling" THEN fuzzy_copy_assign(st, self)
    ELSE marked_copy(st, self)

swap(a, b, na, nb) ==
    IF a.kind = "_fuzzy_sa_sampling" THEN fuzzy_swap(a, b, na, nb)
    ELSE marked_swap(a, b, na, nb)

\* sa_sample_type loaded(sa_sample)
CopyConstruct ==
    /\ sa_sample.kind \in LifeKinds
    /\ loaded.kind = "none"
    /\ loaded' = copy_construct(sa_sample, "loaded")
    /\ UNCHANGED <<SA, sa_sample_dens, isa_sample_dens, bwt_buf, sample_char, sa_sample,
                   isa_sample, files, out, load_log, sd>>

\* sa_sample_type loaded(std::move(sa_sample))
MoveConstruct ==
    /\ sa_sample.kind \in LifeKinds
    /\ loaded.kind = "none"
    /\ LET mv == move_construct(sa_sample, "loaded")
       IN  loaded' = mv.to /\ sa_sample' = mv.from
    /\ UNCHANGED <<SA, sa_sample_dens, isa_sample_dens, bwt_buf, sample_char,
                   isa_sample, files, out, load_log, sd>>

\* loaded = sa_sample, or sa_sample = loaded
CopyAssign ==
    /\ sa_sample.kind \in LifeKinds
    /\ loaded.kind \in LifeKinds
    /\ \/ loaded' = copy_assign(sa_sample, "loaded") /\ UNCHANGED sa_sample
       \/ sa_sample' = copy_assign(loaded, "sa_sample") /\ UNCHANGED loaded
    /\ UNCHANGED <<SA, sa_sample_dens, isa_sample_dens, bwt_buf, sample_char,
                   isa_sample, files, out, load_log, sd>>

\* loaded = std::move(sa_sample), or sa_sample = std::move(loaded)
MoveAssign ==
    /\ sa_sample.kind \in LifeKinds
    /\ loaded.kind \in LifeKinds
    /\ \/ LET mv == move_construct(sa_sample, "loaded")
          IN  loaded' = mv.to /\ sa_sample' = mv.from
       \/ LET mv == move_construct(loaded, "sa_sample")
          IN  sa_sample' = mv.to /\ loaded' = mv.from
    /\ UNCHANGED <<SA, sa_sample_dens, isa_sample_dens, bwt_buf, sample_char,
                   isa_sample, files, out, load_log, sd>>

\* sa_sample.swap(loaded), std::swap(sa_sample, loaded) for _fuzzy_sa_sampling
Swap ==
    /\ sa_sample.kind \in LifeKinds
    /\ loaded.kind \in LifeKinds
    /\ LET sw == swap(sa_sample, loaded, "sa_sample", "loaded")
       IN  sa_sample' = sw.a /\ loaded' = sw.b
    /\ UNCHANGED <<SA, sa_sample_dens, isa_sample_dens, bwt_buf, sample_char,
                   isa_sample, files, out, load_log, sd>>

\* the second instance goes out of scope
Destroy ==
    /\ loaded.kind \in LifeKinds
    /\ loaded' = Default
    /\ UNCHANGED <<SA, sa_sample_dens, isa_sample_dens, bwt_buf, sample_char, sa_sample,
                   isa_sample, files, out, load_log, sd>>

\* longest suffix array of the copy and move runs
MaxNLife == 2

InitLife == InitUpTo(MaxNLife)

NextLife ==
    \/ BuildTextOrder
    \/ BuildBwt
    \/ BuildFuzzy
    \/ SerializeSa
    \/ LoadSa
    \/ CopyConstruct
    \/ MoveConstruct
    \/ CopyAssign
    \/ MoveAssign
    \/ Swap
    \/ Destroy

SpecLife == InitLife /\ [][NextLife]_vars

----------------------------------------------------------------------------
(* sd_vector_builder and the sd_vector constructed from it *)

\* sd_vector_builder::sd_vector_builder()
default_builder ==
    [kind        |-> "sd_vector_builder",
     m_size      |-> 0,
     m_capacity  |-> 0,
     m_wl        |-> 0,
     m_tail      |-> 0,
     m_items     |-> 0,
     m_last_high |-> 0,
     m_highpos   |-> 0,
     m_low       |-> IntVector(0, 64),
     m_high      |-> EmptyVec]

\* the constructor's test of its arguments
builder_throws(size, capacity) == capacity > size

\* builder_logm without the decrement
builder_logm_plain(size, capacity) == hi(capacity) + 1

\* logm as the constructor leaves it
builder_logm(size, capacity) ==
    LET logm == hi(capacity) + 1
        logn == hi(size) + 1
    IN  IF logm = logn THEN logm - 1 ELSE logm

\* sd_vector_builder::sd_vector_builder(n, m), when it does not throw
sd_vector_builder(size, capacity) ==
    LET logm == builder_logm(size, capacity)
        logn == hi(size) + 1
    IN  [kind        |-> "sd_vector_builder",
         m_size      |-> size,
         m_capacity  |-> capacity,
         m_wl        |-> logn - logm,
         m_tail      |-> 0,
         m_items     |-> 0,
         m_last_high |-> 0,
         m_highpos   |-> 0,
         m_low       |-> IntVector(capacity, logn - logm),
         m_high      |-> BitVector(capacity + Pow2(logm))]

\* sd_vector_builder::set(i)
builder_set(b, i) ==
    LET cur_high == i \div Pow2(b.m_wl)
        highpos  == b.m_highpos + (cur_high - b.m_last_high)
    IN  [b EXCEPT !.m_highpos   = highpos + 1,
                  !.m_last_high = cur_high,
                  !.m_low       = IvSet(@, b.m_items, i),
                  !.m_items     = @ + 1,
                  !.m_high      = [@ EXCEPT ![highpos] = 1],
                  !.m_tail      = i + 1]

\* sd_vector_throws letting every builder through
sd_vector_throws_never(b) == FALSE

\* the test sd_vector's constructor makes of the builder
sd_vector_throws(b) == b.m_items # b.m_capacity

\* sd_vector<>::sd_vector(builder), when it does not throw: the vector
sd_vector(b) ==
    [kind            |-> "sd_vector",
     m_size          |-> b.m_size,
     m_wl            |-> b.m_wl,
     m_low           |-> b.m_low,
     m_high          |-> b.m_high,
     m_high_1_select |-> [obj |-> "sd_vec", field |-> "m_high"],
     m_high_0_select |-> [obj |-> "sd_vec", field |-> "m_high"]]

\* largest size of an sd_vector
MaxSdSize == 4

\* sd_vector_builder builder;
BuilderDefault ==
    /\ builder.kind = "none"
    /\ builder' = default_builder
    /\ sd_call' = [op |-> "sd_vector_builder()"]
    /\ UNCHANGED <<SA, sa_sample_dens, isa_sample_dens, bwt_buf, sample_char, sa_sample,
                   isa_sample, files, io, sd_vec>>

\* sd_vector_builder builder(size, capacity);
BuilderConstruct ==
    /\ builder.kind = "none"
    /\ \E size, capacity \in 0 .. MaxSdSize :
          /\ builder' = IF builder_throws(size, capacity) THEN builder
                        ELSE sd_vector_builder(size, capacity)
          /\ sd_call' = [op |-> "sd_vector_builder(n, m)", size |-> size,
                         capacity |-> capacity,
                         threw |-> builder_throws(size, capacity)]
    /\ UNCHANGED <<SA, sa_sample_dens, isa_sample_dens, bwt_buf, sample_char, sa_sample,
                   isa_sample, files, io, sd_vec>>

\* builder.set(i), called as its contract asks: positions increase, stay
\* below the size, and there is room for the item
BuilderSet ==
    /\ builder.kind = "sd_vector_builder"
    /\ builder.m_items < builder.m_capacity
    /\ \E i \in builder.m_tail .. builder.m_size - 1 :
          /\ builder' = builder_set(builder, i)
          /\ sd_call' = [op |-> "set", i |-> i]
    /\ UNCHANGED <<SA, sa_sample_dens, isa_sample_dens, bwt_buf, sample_char, sa_sample,
                   isa_sample, files, io, sd_vec>>

\* sd_vector<> sd_vec(builder);
SdVectorConstruct ==
    /\ builder.kind = "sd_vector_builder"
    /\ sd_vec.kind = "none"
    /\ sd_vec' = IF sd_vector_throws(builder) THEN sd_vec ELSE sd_vector(builder)
    /\ builder' = IF sd_vector_throws(builder) THEN builder ELSE default_builder
    /\ sd_call' = [op |-> "sd_vector(builder)", before |-> builder,
                   threw |-> sd_vector_throws(builder)]
    /\ UNCHANGED <<SA, sa_sample_dens, isa_sample_dens, bwt_buf, sample_char, sa_sample,
                   isa_sample, files, io>>

InitSd ==
    /\ SA = EmptyVec
    /\ sa_sample_dens = 1
    /\ isa_sample_dens = 1
    /\ bwt_buf = EmptyVec
    /\ sample_char = NotCached
    /\ sa_sample = Default
    /\ isa_sample = Default
    /\ files = {}
    /\ out = NoStream
    /\ loaded = Default
    /\ load_log = NoLog
    /\ NoSd

NextSd ==
    \/ BuilderDefault
    \/ BuilderConstruct
    \/ BuilderSet
    \/ SdVectorConstruct

SpecSd == InitSd /\ [][NextSd]_vars

----------------------------------------------------------------------------
(* The example of the file comment: Text = ABCDEFABCDEF$ *)

\* a vector with the given entries
Vec(seq) == [i \in 0 .. Len(seq) - 1 |-> seq[i + 1]]

ExampleText == Vec(<<"A", "B", "C", "D", "E", "F", "A", "B", "C", "D", "E", "F", "$">>)

\* the SA column of the comment
ExampleSA == Vec(<<12, 6, 0, 7, 1, 8, 2, 9, 3, 10, 4, 11, 5>>)

\* the character before each suffix
ExampleBWT ==
    [i \in DOMAIN ExampleSA |->
        ExampleText[(ExampleSA[i] + Size(ExampleSA) - 1) % Size(ExampleSA)]]

ExampleSigma == {ExampleText[i] : i \in DOMAIN ExampleText}

\* largest sampling density of the example runs
MaxDensExample == 4

InitExample ==
    /\ SA = ExampleSA
    /\ sa_sample_dens \in 1 .. MaxDensExample
    /\ isa_sample_dens \in 1 .. MaxDensExample
    /\ bwt_buf = EmptyVec
    /\ sample_char = NotCached
    /\ sa_sample = Default
    /\ isa_sample = Default
    /\ files = {}
    /\ out = NoStream
    /\ loaded = Default
    /\ load_log = NoLog
    /\ NoSd

\* _bwt_sampling's constructor on the example's BWT
BuildBwtExample ==
    /\ sa_sample.kind = "none"
    /\ \E sc \in {NotCached} \cup {[cached |-> TRUE, chars |-> c] : c \in SUBSET ExampleSigma} :
          /\ bwt_buf' = ExampleBWT
          /\ sample_char' = sc
          /\ sa_sample' = bwt_sampling(ExampleBWT, sc)
    /\ UNCHANGED <<SA, sa_sample_dens, isa_sample_dens, isa_sample, files, io, sd>>

NextExample ==
    \/ BuildSaOrder
    \/ BuildTextOrder
    \/ BuildBwtExample
    \/ BuildFuzzy
    \/ BuildFuzzyThrows
    \/ BuildIsa
    \/ BuildTextOrderIsa
    \/ BuildFuzzyIsa

SpecExample == InitExample /\ [][NextExample]_vars

----------------------------------------------------------------------------
(* Properties *)

\* the least k with k * b >= a
CeilDiv(a, b) == CHOOSE k \in 0 .. a : k * b >= a /\ \A m \in 0 .. k - 1 : m * b < a

Indices == 0 .. n - 1

SaKind(k) == sa_sample.kind = k

IsaKind(k) == isa_sample.kind = k

\* C1: after building _sa_order_sampling or _text_order_sampling from a suffix
\* array that is a permutation of [0,n), with any density, every index i in
\* [0,n) with is_sampled(i) has operator[](i) = SA[i].
C1_SampledIsSA ==
    (SaKind("_sa_order_sampling") \/ SaKind("_text_order_sampling")) =>
        \A i \in Indices : is_sampled(i) => sa_at(i) = {SA[i]}

C1_Witness ==
    /\ SaKind("_text_order_sampling")
    /\ n = 4
    /\ sa_sample_dens = 2
    /\ \E i \in Indices : is_sampled(i) /\ SA[i] = 2 /\ sa_at(i) = {2}
    /\ \E i \in Indices : ~is_sampled(i)

\* C2: for _bwt_sampling every marked index i has operator[](i) = SA[i], the
\* value being samples[rank1(marked, i)].
C2_BwtSampledIsSA ==
    SaKind("_bwt_sampling") =>
        \A i \in Indices :
            is_sampled(i) =>
                /\ sa_at(i) = {SA[i]}
                /\ sa_at(i) = IvAt(sa_sample.samples, rank(sa_sample.m_marked, i))

\* C3: for _fuzzy_sa_sampling built from an ISA that is a permutation of
\* [0,n), every SA index i with marked_sa[i] = 1 has operator[](i) = SA[i].
C3_FuzzySampledIsSA ==
    SaKind("_fuzzy_sa_sampling") =>
        \A i \in Indices : is_sampled(i) => sa_at(i) = {SA[i]}

C3_Witness ==
    /\ SaKind("_fuzzy_sa_sampling")
    /\ n = 4
    /\ sa_sample_dens = 2
    /\ SA = (0 :> 2 @@ 1 :> 3 @@ 2 :> 0 @@ 3 :> 1)
    /\ is_sampled(0) /\ sa_at(0) = {2}
    /\ is_sampled(2) /\ sa_at(2) = {0}
    /\ ~is_sampled(1) /\ ~is_sampled(3)

\* C4: after the fuzzy build with B = ceil(n/d_sa) blocks, marked_sa and
\* marked_isa each have B set bits, marked_isa has exactly one set bit in
\* each block of d_sa consecutive positions, and the rank-compressed
\* inv_perm is a permutation of [0,B).
C4_FuzzyDensity ==
    SaKind("_fuzzy_sa_sampling") =>
        LET B == CeilDiv(n, sa_sample_dens)
        IN  /\ Size(sa_sample.m_marked_sa) = n
            /\ Size(sa_sample.m_marked_isa) = n
            /\ popcount(sa_sample.m_marked_sa) = B
            /\ popcount(sa_sample.m_marked_isa) = B
            /\ \A b \in 0 .. B - 1 :
                   Cardinality({p \in Indices :
                       /\ p \div sa_sample_dens = b
                       /\ sa_sample.m_marked_isa[p] = 1}) = 1
            /\ DOMAIN sa_sample.m_inv_perm = 0 .. B - 1
            /\ {sa_sample.m_inv_perm[b] : b \in 0 .. B - 1} = 0 .. B - 1

C4_Witness ==
    /\ SaKind("_fuzzy_sa_sampling")
    /\ n = 4
    /\ sa_sample_dens = 3
    /\ popcount(sa_sample.m_marked_sa) = 2
    /\ sa_sample.m_marked_isa = (0 :> 0 @@ 1 :> 0 @@ 2 :> 1 @@ 3 :> 1)
    /\ sa_sample.m_inv_perm = (0 :> 1 @@ 1 :> 0)

\* C5: after the _text_order_sampling build, marked has length n with exactly
\* ceil(n/d_sa) ones, marked[i] = 1 iff SA[i] mod d_sa = 0, and
\* samples[rank1(marked, i)] = SA[i] / d_sa for every marked i.
C5_TextOrderMarks ==
    SaKind("_text_order_sampling") =>
        /\ Size(sa_sample.m_marked) = n
        /\ popcount(sa_sample.m_marked) = CeilDiv(n, sa_sample_dens)
        /\ \A i \in Indices :
               /\ sa_sample.m_marked[i] = 1 <=> SA[i] % sa_sample_dens = 0
               /\ sa_sample.m_marked[i] = 1 =>
                      condensed_sa(rank(sa_sample.m_marked, i)) = {SA[i] \div sa_sample_dens}

C5_Witness ==
    /\ SaKind("_text_order_sampling")
    /\ n = 4
    /\ sa_sample_dens = 3
    /\ sa_sample.m_marked = (0 :> 0 @@ 1 :> 1 @@ 2 :> 0 @@ 3 :> 1)
    /\ sa_sample.samples.v = (0 :> 1 @@ 1 :> 0)

\* C6: after the _bwt_sampling build, marked[i] = 1 iff SA[i] mod d_sa = 0 or
\* BWT[i] is in S (S empty when no sample-char set is cached), samples has as
\* many entries as there are marks, and samples holds SA[i] for the marked i
\* in increasing SA-index order.
C6_BwtMarks ==
    SaKind("_bwt_sampling") =>
        LET S == IF sample_char.cached THEN sample_char.chars ELSE {}
        IN  /\ Size(sa_sample.m_marked) = n
            /\ \A i \in Indices :
                   sa_sample.m_marked[i] = 1 <=>
                       (SA[i] % sa_sample_dens = 0 \/ bwt_buf[i] \in S)
            /\ Size(sa_sample.samples.v) = popcount(sa_sample.m_marked)
            /\ \A i \in Indices :
                   sa_sample.m_marked[i] = 1 =>
                       IvAt(sa_sample.samples, rank(sa_sample.m_marked, i)) = {SA[i]}

C6_Witness ==
    /\ SaKind("_bwt_sampling")
    /\ n = 4
    /\ sa_sample_dens = 3
    /\ sample_char = [cached |-> TRUE, chars |-> {"B"}]
    /\ \E i \in Indices : SA[i] % 3 # 0 /\ bwt_buf[i] = "B" /\ sa_sample.m_marked[i] = 1
    /\ \E i \in Indices : SA[i] % 3 # 0 /\ bwt_buf[i] = "A" /\ sa_sample.m_marked[i] = 0
    /\ Size(sa_sample.samples.v) = 3

\* the matched pairs of an SA sampling and an ISA sampling
PairSaOrder == SaKind("_sa_order_sampling") /\ IsaKind("_isa_sampling")

PairTextOrder ==
    SaKind("_text_order_sampling") /\ IsaKind("_text_order_isa_sampling_support")

PairFuzzy == SaKind("_fuzzy_sa_sampling") /\ IsaKind("_fuzzy_isa_sampling_support")

\* C7: for the pairs (_sa_order_sampling, _isa_sampling) and
\* (_text_order_sampling, _text_order_isa_sampling_support), every multiple
\* k*d_isa < n has SA[D[k*d_isa]] = k*d_isa, D[.] being the ISA sampling's
\* operator[].
C7_IsaSampleInvertsSA ==
    (PairSaOrder \/ PairTextOrder) =>
        \A t \in Indices :
            t % isa_sample_dens = 0 =>
                \A v \in isa_at(t) : v \in DOMAIN SA /\ SA[v] = t

C7_Witness ==
    /\ PairTextOrder
    /\ n = 4
    /\ isa_sample_dens = 2
    /\ isa_at(2) = {3}
    /\ SA[3] = 2
    /\ isa_at(0) = {1}

\* C8: for the pair (_fuzzy_sa_sampling, _fuzzy_isa_sampling_support), for
\* every multiple k*d_isa < n the value D[k*d_isa] of the support's
\* operator[] is an SA index with SA[D[k*d_isa]] = k*d_isa; and for every
\* chosen text position t (marked_isa[t] = 1), D[t/d_isa] is the SA index at
\* which SA equals t.
C8_FuzzyIsaInvertsSA ==
    PairFuzzy =>
        /\ \A t \in Indices :
               t % isa_sample_dens = 0 =>
                   \A v \in isa_at(t) : v \in DOMAIN SA /\ SA[v] = t
        /\ \A t \in Indices :
               sa_sample.m_marked_isa[t] = 1 =>
                   \A v \in isa_at(t \div isa_sample_dens) : v \in DOMAIN SA /\ SA[v] = t

\* C9: for _isa_sampling and _text_order_isa_sampling_support, for every i in
\* [0,n), sample_leq(i) returns (v, p) with p <= i, p a multiple of d_isa and
\* SA[v] = p.
C9_SampleLeq ==
    (IsaKind("_isa_sampling") \/ PairTextOrder) =>
        \A i \in Indices :
            \A r \in sample_leq(i) :
                /\ r[2] <= i
                /\ r[2] % isa_sample_dens = 0
                /\ r[1] \in DOMAIN SA
                /\ SA[r[1]] = r[2]

C9_Witness ==
    /\ IsaKind("_isa_sampling")
    /\ n = 4
    /\ isa_sample_dens = 2
    /\ sample_leq(3) = {<<0, 2>>}
    /\ sample_leq(1) = {<<2, 0>>}

Chosen(b) ==
    CHOOSE p \in Indices : p \div sa_sample_dens = b /\ sa_sample.m_marked_isa[p] = 1

\* C11: for _fuzzy_isa_sampling_support bound to a built _fuzzy_sa_sampling,
\* for every i in [0,n), sample_leq(i) returns (v, j) where j is the marked
\* text position of block i/d_isa if that position is <= i, otherwise the
\* marked position of the previous block taken cyclically (the last block
\* when i/d_isa = 0), and SA[v] = j.
C11_FuzzySampleLeq ==
    PairFuzzy =>
        \A i \in Indices :
            LET B  == CeilDiv(n, isa_sample_dens)
                b  == i \div isa_sample_dens
                j  == IF Chosen(b) <= i THEN Chosen(b) ELSE Chosen((b + B - 1) % B)
            IN  /\ sample_leq(i) = {<<ISA[j], j>>}
                /\ \A r \in sample_leq(i) : r[1] \in DOMAIN SA /\ SA[r[1]] = r[2]

C11_Witness ==
    /\ PairFuzzy
    /\ n = 4
    /\ isa_sample_dens = 2
    /\ SA = (0 :> 1 @@ 1 :> 0 @@ 2 :> 2 @@ 3 :> 3)
    /\ sample_leq(0) = {<<2, 2>>}
    /\ sample_leq(1) = {<<0, 1>>}
    /\ sample_leq(3) = {<<2, 2>>}

LoadedSa == out.of = "sa_sample" /\ loaded.kind \in SaKinds

LoadedIsa == out.of = "isa_sample" /\ loaded.kind \in IsaKinds

\* C12: an SA sampling written with serialize and read back with load into a
\* fresh instance equals the original by operator==, marks the same indices
\* as sampled, and returns the same value at every sampled index.
C12_RoundTrip ==
    LoadedSa =>
        /\ ~load_log.misread
        /\ value_eq(sa_sample, loaded)
        /\ \A i \in Indices :
              /\ is_sampled_in(loaded, i) = is_sampled(i)
              /\ is_sampled(i) => sa_at_in(loaded, i) = sa_at(i)

C12_Witness ==
    /\ LoadedSa
    /\ loaded.kind = "_fuzzy_sa_sampling"
    /\ n = 3
    /\ sa_sample_dens = 2
    /\ loaded.m_rank_marked_sa = PtrLoaded("m_marked_sa")
    /\ \E i \in Indices : is_sampled(i) /\ sa_at_in(loaded, i) = {SA[i]}

\* the samplings that have supports
SupportedKinds ==
    {"_text_order_sampling", "_bwt_sampling", "_fuzzy_sa_sampling",
     "_text_order_isa_sampling_support", "_fuzzy_isa_sampling_support"}

\* a load of a sampling with supports has returned
LoadedSupported == (LoadedSa \/ LoadedIsa) /\ loaded.kind \in SupportedKinds

Events == load_log.events

\* the members in the order load read them
RECURSIVE ReadOrder(_)
ReadOrder(ev) ==
    IF ev = <<>> THEN <<>>
    ELSE IF Head(ev).op = "read" THEN <<Head(ev).field>> \o ReadOrder(Tail(ev))
         ELSE ReadOrder(Tail(ev))

ReadsAsWritten == ReadOrder(Events) = serialize_order(loaded.kind)

\* no member is read once a back-reference has been bound
RebindingLast ==
    \A j, k \in DOMAIN Events :
        Events[j].op = "rebind" /\ j < k => Events[k].op = "rebind"

\* a bound support is not read again, and was read before it was bound
RebindingAfterOwnRead ==
    \A j \in DOMAIN Events :
        Events[j].op = "rebind" /\ Events[j].field # "m_sa_p" =>
            /\ \E k \in DOMAIN Events :
                  k < j /\ Events[k].op = "read" /\ Events[k].field = Events[j].field
            /\ \A k \in DOMAIN Events :
                  j < k /\ Events[k].op = "read" => Events[k].field # Events[j].field

\* C13 as stated: every load of a sampling with supports reads the members
\* in the order serialize writes them and binds the back-references as its
\* last step, no member being read after a binding.
C13_RebindingLast ==
    LoadedSupported => ReadsAsWritten /\ RebindingLast

\* C13: every load of a sampling with supports reads the members in the
\* order serialize writes them; each support is bound after it has been read
\* and is not read again; the bindings are the last steps of load except in
\* _fuzzy_sa_sampling, which binds each of its two supports right after
\* reading it and reads the remaining members afterwards.
C13_RebindingAfterRead ==
    LoadedSupported =>
        /\ ReadsAsWritten
        /\ RebindingAfterOwnRead
        /\ loaded.kind # "_fuzzy_sa_sampling" => RebindingLast
        /\ loaded.kind = "_fuzzy_sa_sampling" =>
              /\ Events[3] = [op |-> "rebind", field |-> "m_rank_marked_sa"]
              /\ Events[6] = [op |-> "rebind", field |-> "m_select_marked_isa"]
              /\ Events[7] = [op |-> "read", field |-> "m_inv_perm"]

C13_Witness ==
    /\ LoadedSupported
    /\ loaded.kind = "_fuzzy_sa_sampling"
    /\ n = 3
    /\ Len(Events) = 7
    /\ Events[3].op = "rebind"
    /\ Events[4] = [op |-> "read", field |-> "m_marked_isa"]
    /\ ~RebindingLast

\* the constructor of _fuzzy_sa_sampling has returned or has thrown
FuzzyBuildOver == SaKind("_fuzzy_sa_sampling") \/ SaKind("threw")

\* C14: when the construction of _fuzzy_sa_sampling is over, normally or by
\* an error raised after the temporary file was written, the temporary file
\* does not exist and the build has left no other file behind.
C14_TempFileRemoved == FuzzyBuildOver => files = {}

\* C15: a _text_order_isa_sampling_support is never constructed for a
\* companion whose text_order is false, and neither it nor a
\* _fuzzy_isa_sampling_support is constructed when the two densities
\* differ: the construction cannot take place and no support comes to exist.
C15_MatchedSupportRequires ==
    /\ IsaKind("_text_order_isa_sampling_support") =>
          text_order /\ sa_sample_dens = isa_sample_dens
    /\ IsaKind("_fuzzy_isa_sampling_support") => sa_sample_dens = isa_sample_dens
    /\ ~text_order => ~ENABLED BuildTextOrderIsa
    /\ sa_sample_dens # isa_sample_dens =>
          ~ENABLED BuildTextOrderIsa /\ ~ENABLED BuildFuzzyIsa

C15_Witness ==
    /\ SaKind("_text_order_sampling")
    /\ IsaKind("none")
    /\ n = 4
    /\ sa_sample_dens = 2
    /\ isa_sample_dens = 3
    /\ ~ENABLED BuildTextOrderIsa

\* C16: for every n >= 0 and every density, a built _sa_order_sampling holds
\* exactly ceil(n / sa_sample_dens) samples and a built _isa_sampling exactly
\* ceil(n / isa_sample_dens).
C16_SampleCount ==
    /\ SaKind("_sa_order_sampling") =>
          Size(sa_sample.samples.v) = CeilDiv(n, sa_sample_dens)
    /\ IsaKind("_isa_sampling") =>
          Size(isa_sample.samples.v) = CeilDiv(n, isa_sample_dens)

C16_Witness ==
    /\ SaKind("_sa_order_sampling")
    /\ IsaKind("_isa_sampling")
    /\ n = 4
    /\ sa_sample_dens = 3
    /\ isa_sample_dens = 2
    /\ Size(sa_sample.samples.v) = 2
    /\ Size(isa_sample.samples.v) = 2

\* every entry of the _isa_sampling vector is the suffix-array index of its
\* text position
IsaEntries ==
    \A k \in 0 .. n :
        k * isa_sample_dens < n =>
            /\ k \in DOMAIN isa_sample.samples.v
            /\ isa_sample.samples.v[k] \in DOMAIN SA
            /\ SA[isa_sample.samples.v[k]] = k * isa_sample_dens

\* C17 as stated: for n >= 1 the vector built by _isa_sampling has length
\* ceil((n - 1) / isa_sample_dens) + 1, and entry k, for k * isa_sample_dens < n,
\* is the index i with SA[i] = k * isa_sample_dens.
C17_IsaLengthCeil ==
    IsaKind("_isa_sampling") /\ n >= 1 =>
        /\ Size(isa_sample.samples.v) = CeilDiv(n - 1, isa_sample_dens) + 1
        /\ IsaEntries

\* C17: for n >= 1 the vector built by _isa_sampling has length
\* floor((n - 1) / isa_sample_dens) + 1, and entry k, for k * isa_sample_dens < n,
\* is the index i with SA[i] = k * isa_sample_dens.
C17_IsaLengthFloor ==
    IsaKind("_isa_sampling") /\ n >= 1 =>
        /\ Size(isa_sample.samples.v) = (n - 1) \div isa_sample_dens + 1
        /\ IsaEntries

C17_Witness ==
    /\ IsaKind("_isa_sampling")
    /\ n = 4
    /\ isa_sample_dens = 2
    /\ SA = (0 :> 3 @@ 1 :> 2 @@ 2 :> 1 @@ 3 :> 0)
    /\ isa_sample.samples.v = (0 :> 3 @@ 1 :> 1)
    /\ CeilDiv(n - 1, isa_sample_dens) + 1 = 3

\* the example of the file comment with sa_sample_dens = 2
Example2 == SA = ExampleSA /\ sa_sample_dens = 2

\* C18 as stated: on the example with density 2, _sa_order_sampling holds
\* the samples [12,0,7,1,8,2,9], index 4 is sampled with value 8, and index
\* 5 is not sampled.
C18_ExampleSaOrderAsStated ==
    Example2 /\ SaKind("_sa_order_sampling") =>
        /\ sa_sample.samples.v = Vec(<<12, 0, 7, 1, 8, 2, 9>>)
        /\ is_sampled(4)
        /\ sa_at(4) = {8}
        /\ ~is_sampled(5)

\* C18: on the example with density 2, _sa_order_sampling holds the samples
\* [12,0,1,2,3,4,5], the suffix-array values at the even indices; index 4 is
\* sampled with value 1, and index 5 is not sampled.
C18_ExampleSaOrder ==
    Example2 /\ SaKind("_sa_order_sampling") =>
        /\ sa_sample.samples.v = Vec(<<12, 0, 1, 2, 3, 4, 5>>)
        /\ \A k \in DOMAIN sa_sample.samples.v : sa_sample.samples.v[k] = SA[2 * k]
        /\ is_sampled(4)
        /\ sa_at(4) = {1}
        /\ ~is_sampled(5)

C18_Witness ==
    /\ Example2
    /\ SaKind("_sa_order_sampling")
    /\ Size(sa_sample.samples.v) = 7
    /\ sa_at(4) = {SA[4]}

\* C19 as stated: on the example with density 2, _text_order_sampling marks
\* [1,1,0,0,1,0,1,0,1,0,1,0,1], holds the condensed samples [6,0,3,4,1,5,2],
\* and returns 10 at index 10.
C19_ExampleTextOrderAsStated ==
    Example2 /\ SaKind("_text_order_sampling") =>
        /\ sa_sample.m_marked = Vec(<<1, 1, 0, 0, 1, 0, 1, 0, 1, 0, 1, 0, 1>>)
        /\ sa_sample.samples.v = Vec(<<6, 0, 3, 4, 1, 5, 2>>)
        /\ sa_at(10) = {10}

\* C19: on the example with density 2, _text_order_sampling marks
\* [1,1,1,0,0,1,1,0,0,1,1,0,0], the indices whose suffix-array value is even,
\* holds the condensed samples [6,3,0,4,1,5,2], and returns 4 at index 10.
C19_ExampleTextOrder ==
    Example2 /\ SaKind("_text_order_sampling") =>
        /\ sa_sample.m_marked = Vec(<<1, 1, 1, 0, 0, 1, 1, 0, 0, 1, 1, 0, 0>>)
        /\ \A i \in Indices : sa_sample.m_marked[i] = 1 <=> SA[i] % 2 = 0
        /\ sa_sample.samples.v = Vec(<<6, 3, 0, 4, 1, 5, 2>>)
        /\ is_sampled(10)
        /\ sa_at(10) = {4}

C19_Witness ==
    /\ Example2
    /\ SaKind("_text_order_sampling")
    /\ popcount(sa_sample.m_marked) = 7
    /\ sa_at(10) = {SA[10]}

\* the text positions of block b
Block(b) == {p \in Indices : p \div sa_sample_dens = b}

\* min_prev when block b is scanned
MinPrev(b) == IF b = 0 THEN 0 ELSE ISA[Chosen(b - 1)]

\* the positions of block b that can extend the increasing sequence
Candidates(b) == {p \in Block(b) : ISA[p] >= MinPrev(b)}

\* the position of S with the smallest ISA value
ArgMinISA(S) == CHOOSE p \in S : \A q \in S : ISA[p] <= ISA[q]

\* C20: in a built _fuzzy_sa_sampling every block has exactly one chosen
\* position: the one with the smallest ISA value among the block's positions
\* whose ISA value is at least min_prev (0 for the first block, afterwards
\* the ISA value chosen in the previous block), or, when there is none, the
\* one with the block's smallest ISA value.  So the chosen ISA values do not
\* decrease from one block to the next except at blocks without a candidate.
C20_FuzzyChoice ==
    SaKind("_fuzzy_sa_sampling") =>
        \A b \in 0 .. CeilDiv(n, sa_sample_dens) - 1 :
            /\ Cardinality({p \in Block(b) : sa_sample.m_marked_isa[p] = 1}) = 1
            /\ Chosen(b) = IF Candidates(b) # {} THEN ArgMinISA(Candidates(b))
                                                 ELSE ArgMinISA(Block(b))
            /\ b > 0 /\ Candidates(b) # {} => ISA[Chosen(b)] >= ISA[Chosen(b - 1)]

C20_Witness ==
    /\ SaKind("_fuzzy_sa_sampling")
    /\ n = 4
    /\ sa_sample_dens = 2
    /\ SA = (0 :> 3 @@ 1 :> 2 @@ 2 :> 1 @@ 3 :> 0)
    /\ Candidates(0) = {0, 1}
    /\ Chosen(0) = 1
    /\ Candidates(1) = {}
    /\ Chosen(1) = 3

\* the blocks in which no position could extend the increasing sequence
BrokenBlocks == {b \in 0 .. CeilDiv(n, sa_sample_dens) - 1 : Candidates(b) = {}}

\* C21 as stated: at the end of the scan of _fuzzy_sa_sampling's constructor
\* the run counter equals the number of blocks in which no position with
\* ISA >= min_prev existed.
C21_RunsEqualBreaks ==
    SaKind("_fuzzy_sa_sampling") => fuzzy_scanned.runs = Cardinality(BrokenBlocks)

\* C21: at the end of the scan of _fuzzy_sa_sampling's constructor the run
\* counter equals one plus the number of blocks in which no position with
\* ISA >= min_prev existed.
C21_RunsEqualBreaksPlusOne ==
    SaKind("_fuzzy_sa_sampling") => fuzzy_scanned.runs = 1 + Cardinality(BrokenBlocks)

C21_Witness ==
    /\ SaKind("_fuzzy_sa_sampling")
    /\ n = 4
    /\ sa_sample_dens = 1
    /\ SA = (0 :> 1 @@ 1 :> 0 @@ 2 :> 3 @@ 3 :> 2)
    /\ BrokenBlocks = {1, 3}
    /\ fuzzy_scanned.runs = 3

\* every support of the instance x, which lives at self, is bound to x's own vector
OwnSupports(x, self) ==
    CASE x.kind \in {"_text_order_sampling", "_bwt_sampling"} ->
            x.m_rank_marked = PtrOf(self, "m_marked")
      [] x.kind = "_fuzzy_sa_sampling" ->
            /\ x.m_rank_marked_sa = PtrOf(self, "m_marked_sa")
            /\ x.m_select_marked_isa = PtrOf(self, "m_marked_isa")
      [] OTHER -> TRUE

\* C22: after any sequence of build, copy construction, copy assignment,
\* move construction, move assignment, swap and load on instances of
\* _text_order_sampling, _bwt_sampling and _fuzzy_sa_sampling, the rank or
\* select support of every instance refers to the bit vector of that same
\* instance, never to the one of the instance it was copied, moved or
\* swapped from.
C22_OwnSupports ==
    /\ OwnSupports(sa_sample, "sa_sample")
    /\ OwnSupports(loaded, "loaded")

C22_Witness ==
    /\ SaKind("_fuzzy_sa_sampling")
    /\ loaded.kind = "_fuzzy_sa_sampling"
    /\ n = 2
    /\ out.of = "sa_sample"
    /\ sa_sample.m_marked_sa = EmptyVec
    /\ loaded.m_marked_sa # EmptyVec
    /\ loaded.m_rank_marked_sa = PtrOf("loaded", "m_marked_sa")

\* the last call was the two-argument constructor of sd_vector_builder
BuilderCalled == sd_call.op = "sd_vector_builder(n, m)"

\* C23: constructing an sd_vector_builder with size n and capacity m fails
\* with an error whenever m > n, and for every m <= n it succeeds with a
\* low-part width m_wl = (hi(n) + 1) - logm that is at least 1, where logm is
\* hi(m) + 1, decreased by one when it equals hi(n) + 1.
C23_BuilderConstruct ==
    BuilderCalled =>
        LET size     == sd_call.size
            capacity == sd_call.capacity
            logn     == hi(size) + 1
            logm     == IF hi(capacity) + 1 = logn THEN hi(capacity) ELSE hi(capacity) + 1
        IN  /\ capacity > size => sd_call.threw /\ builder.kind = "none"
            /\ capacity <= size =>
                  /\ ~sd_call.threw
                  /\ builder.kind = "sd_vector_builder"
                  /\ builder.m_wl = logn - logm
                  /\ builder.m_wl >= 1

C23_Witness ==
    /\ BuilderCalled
    /\ sd_call.size = 3
    /\ sd_call.capacity = 2
    /\ ~sd_call.threw
    /\ builder.m_wl = 1
    /\ Size(builder.m_high) = 4

\* the last call was the constructor of sd_vector from a builder
SdVectorCalled == sd_call.op = "sd_vector(builder)"

\* C24: constructing an sd_vector from a builder whose number of inserted
\* items differs from its capacity fails with an error and leaves the builder
\* as it was; from a full builder the construction succeeds and leaves the
\* builder in the empty default state (size 0, capacity 0, items 0).
C24_BuilderConsumed ==
    SdVectorCalled =>
        LET before == sd_call.before
        IN  /\ before.m_items # before.m_capacity =>
                  /\ sd_call.threw
                  /\ builder = before
                  /\ sd_vec.kind = "none"
            /\ before.m_items = before.m_capacity =>
                  /\ ~sd_call.threw
                  /\ sd_vec.kind = "sd_vector"
                  /\ builder = default_builder
                  /\ builder.m_size = 0
                  /\ builder.m_capacity = 0
                  /\ builder.m_items = 0

C24_Witness ==
    /\ SdVectorCalled
    /\ ~sd_call.threw
    /\ sd_call.before.m_capacity = 2
    /\ sd_call.before.m_items = 2
    /\ sd_vec.m_size = 3
    /\ builder.m_capacity = 0

====
